---- MODULE Spec2Model ----
(***************************************************************************)
(* Model of the resolution-and-lock core of esy-install:                   *)
(*   - the opam resolver's version-constraint solver and its resolved      *)
(*     reference strings (src/src/resolvers/exotics/opam-resolver),        *)
(*   - the lockfile entry transforms and the lockfile build pass           *)
(*     (src/unnamed/part_000, the lockfile module),                        *)
(*   - the opam fetch pipeline (src/src/fetchers/opam-fetcher.js).         *)
(* Strings the code scans character by character are sequences of          *)
(* one-character strings; an optional (null / undefined) value is the      *)
(* empty tuple <<>> and a present value v is <<v>>.                        *)
(***************************************************************************)
EXTENDS Integers, Sequences, FiniteSets, TLC

VARIABLES
  \* ---- reference strings (opam-resolver: resolve / parseReference)
  manifestRef,    \* <<>> or <<[name, scope, version, uid]>>: the manifest being resolved
  resolution,     \* <<>> or <<string>>: the resolved reference string
  parsed,         \* <<>> or <<result of parseReference(resolution)>>
  reformatted,    \* <<>> or <<string>>: the parsed reference formatted again
  \* ---- solver (opam-resolver: resolveManifest / isLockfileEntryOutdated)
  catalog,        \* manifestCollection.versions: version key -> manifest
  constraint,     \* [versionRange, ocamlVersion]
  lockEntry,      \* <<>> or <<lockfile entry>>
  solution,       \* <<>> or <<Solution>>
  outdated,       \* <<>> or <<BOOLEAN>>
  \* ---- lockfile entries (lockfile: implodeEntry / explodeEntry)
  entryPattern,   \* the pattern that owns the entry
  fullEntry,      \* the full lock entry object e
  minimal,        \* <<>> or <<the object implodeEntry(entryPattern, e) returned>>
  explodedObjs,   \* which of "entry", "minimal" explodeEntry has filled in place
  \* ---- lockfile build (Lockfile.getLockfile)
  patterns,       \* the pattern -> package record object, in insertion order
  lockfile,       \* <<>> or <<what getLockfile(patterns) returned>>
  \* ---- lockfile lookup (Lockfile.getLocked)
  cache,          \* <<>> or <<this.cache: pattern -> alias string or entry object>>
  heap,           \* the entry objects the cache refers to, by object identity
  locked,         \* the getLocked call: the frame that runs, the stack depth, the outcome
  \* ---- fetcher (OpamFetcher and the functions of its module)
  manifest,       \* what lookupManifest returns: [opam: [url, checksum, files, patches]]
  fetch,          \* the function called: its position, the operations in flight, the files
  download        \* the tarball request: response, body left, hasher, promise

refVars    == <<manifestRef, resolution, parsed, reformatted>>
solverVars == <<catalog, constraint, lockEntry, solution, outdated>>
entryVars  == <<entryPattern, fullEntry, minimal, explodedObjs>>
buildVars  == <<patterns, lockfile>>
fetchVars  == <<manifest, fetch, download>>
lockedVars == <<cache, heap, locked>>
vars       == <<refVars, solverVars, entryVars, buildVars, fetchVars, lockedVars>>

\* What an action of one part leaves alone: the variables of the other parts.
exceptRef    == <<solverVars, entryVars, buildVars, fetchVars, lockedVars>>
exceptSolver == <<refVars, entryVars, buildVars, fetchVars, lockedVars>>
exceptEntry  == <<refVars, solverVars, buildVars, fetchVars, lockedVars>>
exceptBuild  == <<refVars, solverVars, entryVars, fetchVars, lockedVars>>
exceptFetch  == <<refVars, solverVars, entryVars, buildVars, lockedVars>>
exceptLocked == <<refVars, solverVars, entryVars, buildVars, fetchVars>>

Absent   == <<>>
Some(v)  == <<v>>
IsSome(o) == o # <<>>
Val(o)   == o[1]

----------------------------------------------------------------------------
(* Character strings *)

\* String.prototype.indexOf(sub), 1-based; 0 when sub does not occur.
IndexOf(s, sub) ==
  LET hits == {i \in 1..(Len(s) - Len(sub) + 1) : SubSeq(s, i, i + Len(sub) - 1) = sub}
  IN  IF hits = {} THEN 0 ELSE CHOOSE i \in hits : \A j \in hits : i <= j

\* String.prototype.lastIndexOf(sub), 1-based; 0 when sub does not occur.
LastIndexOf(s, sub) ==
  LET hits == {i \in 1..(Len(s) - Len(sub) + 1) : SubSeq(s, i, i + Len(sub) - 1) = sub}
  IN  IF hits = {} THEN 0 ELSE CHOOSE i \in hits : \A j \in hits : i >= j

\* s.slice(i - 1) for a 1-based i: the rest of s from position i on.
SliceFrom(s, i) == SubSeq(s, i, Len(s))

AtSign == <<"@">>
Slash  == <<"/">>
Dash   == <<"-">>
Tgz    == <<".", "t", "g", "z">>

----------------------------------------------------------------------------
(* Resolved references: `${manifest.name}@${manifest.version}-${manifest._uid}.tgz` *)

Malformed == [ok |-> FALSE]

\* The full package name, "@scope/name" for a scoped package.
FullName(scope, name) ==
  IF IsSome(scope) THEN AtSign \o Val(scope) \o Slash \o name ELSE name

\* OpamResolver.resolve: the resolved string of a manifest.
FormatReference(ref) ==
  FullName(ref.scope, ref.name) \o AtSign \o ref.version \o Dash \o ref.uid \o Tgz

\* parseReference: an invariant() failure is the result Malformed.
parseReference(res) ==
  LET hasScope == Len(res) > 0 /\ res[1] = "@"
      slash    == IndexOf(res, Slash)
  IN
  IF hasScope /\ slash = 0 THEN Malformed ELSE
  LET scope  == IF hasScope THEN Some(SubSeq(res, 2, slash - 1)) ELSE Absent
      value1 == IF hasScope THEN SliceFrom(res, slash + 1) ELSE res
      at     == IndexOf(value1, AtSign)
  IN
  IF at = 0 THEN Malformed ELSE
  LET name   == SubSeq(value1, 1, at - 1)
      value2 == SliceFrom(value1, at + 1)
      dash   == LastIndexOf(value2, Dash)
  IN
  IF dash = 0 THEN Malformed ELSE
  LET version == SubSeq(value2, 1, dash - 1)
      value3  == SliceFrom(value2, dash + 1)
      tgz     == IndexOf(value3, Tgz)
  IN
  IF tgz = 0 THEN Malformed ELSE
    [ok |-> TRUE, name |-> name, fullName |-> FullName(scope, name),
     scope |-> scope, version |-> version, uid |-> SubSeq(value3, 1, tgz - 1)]

\* isValidReference: null, or a string parseReference throws on, is invalid.
isValidReference(res) ==
  IF ~IsSome(res) THEN FALSE ELSE parseReference(Val(res)).ok

\* --- the reference flow: resolve() formats, the lockfile reader parses ---

MaxSuffix == 1

RefNames    == {<<"f">>, <<"f", "o">>}
RefScopes   == {Absent, Some(<<"s">>)}
RefVersions == {<<"1">>, <<"1", ".", "2">>, <<"1", "-", "b">>}
RefUids     == {<<"u">>, <<"a", "b">>}
Refs == [name : RefNames, scope : RefScopes, version : RefVersions, uid : RefUids]

\* Text that may follow a well-formed reference in a lockfile's resolved field.
Suffixes == UNION {[1..n -> {"x"}] : n \in 0..MaxSuffix}
\* Strings that are not references at all.
BrokenResolutions ==
  {<<>>, <<"f">>, <<"@", "s">>, <<"f", "@", "1">>, <<"f", "@", "1", "-", "u">>,
   <<"@", "s", "/", "f">>}
Resolutions == {FormatReference(r) \o x : r \in Refs, x \in Suffixes} \cup BrokenResolutions

InitRef ==
  /\ parsed = Absent
  /\ reformatted = Absent
  /\ \/ manifestRef \in {Some(r) : r \in Refs} /\ resolution = Absent
     \/ manifestRef = Absent /\ resolution \in {Some(t) : t \in Resolutions}

IdleRef ==
  /\ manifestRef = Absent /\ resolution = Absent
  /\ parsed = Absent /\ reformatted = Absent

\* OpamResolver.resolve: the manifest's reference string becomes its resolved field.
Resolve ==
  /\ IsSome(manifestRef) /\ ~IsSome(resolution)
  /\ resolution' = Some(FormatReference(Val(manifestRef)))
  /\ UNCHANGED <<manifestRef, parsed, reformatted, exceptRef>>

ParseReference ==
  /\ IsSome(resolution) /\ ~IsSome(parsed)
  /\ parsed' = Some(parseReference(Val(resolution)))
  /\ UNCHANGED <<manifestRef, resolution, reformatted, exceptRef>>

\* Formatting a parsed reference again, as resolve() formats a manifest.
FormatParsed ==
  /\ IsSome(parsed) /\ Val(parsed).ok /\ ~IsSome(reformatted)
  /\ reformatted' = Some(FormatReference(Val(parsed)))
  /\ UNCHANGED <<manifestRef, resolution, parsed, exceptRef>>

----------------------------------------------------------------------------
(* Semantic versions, as the semver package compares and matches them *)

Ver(major, minor, patch, pre) ==
  [major |-> major, minor |-> minor, patch |-> patch, prerelease |-> pre]

\* compareIdentifiers on the alphanumeric pre-release identifiers in use
\* (plain string order: "alpha" < "beta1").
IdRank(id) == CASE id = "alpha" -> 1 [] id = "beta1" -> 2

compareIdentifiers(a, b) ==
  IF IdRank(a) < IdRank(b) THEN -1 ELSE IF IdRank(a) > IdRank(b) THEN 1 ELSE 0

\* SemVer.compareMain
compareMain(a, b) ==
  IF a.major # b.major THEN (IF a.major < b.major THEN -1 ELSE 1)
  ELSE IF a.minor # b.minor THEN (IF a.minor < b.minor THEN -1 ELSE 1)
  ELSE IF a.patch # b.patch THEN (IF a.patch < b.patch THEN -1 ELSE 1)
  ELSE 0

\* SemVer.comparePre: a version without pre-release ranks above one with.
RECURSIVE comparePreFrom(_, _, _)
comparePreFrom(pa, pb, i) ==
  IF i > Len(pa) /\ i > Len(pb) THEN 0
  ELSE IF i > Len(pb) THEN 1
  ELSE IF i > Len(pa) THEN -1
  ELSE IF pa[i] = pb[i] THEN comparePreFrom(pa, pb, i + 1)
  ELSE compareIdentifiers(pa[i], pb[i])

comparePre(a, b) ==
  IF a.prerelease # <<>> /\ b.prerelease = <<>> THEN -1
  ELSE IF a.prerelease = <<>> /\ b.prerelease # <<>> THEN 1
  ELSE comparePreFrom(a.prerelease, b.prerelease, 1)

\* SemVer.compare
compare(a, b) == IF compareMain(a, b) # 0 THEN compareMain(a, b) ELSE comparePre(a, b)

\* cmp(a, op, b) for the operators a range can hold
cmp(a, op, b) ==
  CASE op = ""   -> compare(a, b) = 0
    [] op = ">=" -> compare(a, b) >= 0
    [] op = "<"  -> compare(a, b) < 0

\* A range is [op, v]: "*" ; a bare version "X.Y.Z[-pre]" (op "") ; ">=v" ; "<v" ;
\* "^v" with v.major > 0.  Its comparators, as new Range(range).set[0] holds them.
AnyComparator == [any |-> TRUE, operator |-> "", semver |-> Ver(0, 0, 0, <<>>)]
Comparator(op, v) == [any |-> FALSE, operator |-> op, semver |-> v]

Comparators(range) ==
  CASE range.op = "*"  -> {AnyComparator}
    [] range.op = "^"  -> {Comparator(">=", range.v),
                           Comparator("<", Ver(range.v.major + 1, 0, 0, <<>>))}
    [] OTHER           -> {Comparator(range.op, range.v)}

\* Comparator.test
testComparator(c, version) == c.any \/ cmp(version, c.operator, c.semver)

\* testSet: every comparator accepts the version, and a version that carries a
\* pre-release tag is accepted only when some comparator names a pre-release of the
\* same major.minor.patch.
testSet(set, version) ==
  /\ \A c \in set : testComparator(c, version)
  /\ version.prerelease # <<>> =>
       \E c \in set : /\ ~c.any
                      /\ c.semver.prerelease # <<>>
                      /\ c.semver.major = version.major
                      /\ c.semver.minor = version.minor
                      /\ c.semver.patch = version.patch

\* semver.satisfies(version, range)
satisfies(version, range) == testSet(Comparators(range), version)

\* semver.prerelease(s): the pre-release of s parsed as a VERSION, null when s is not
\* a version string or has no pre-release.  Only a bare version parses as a version.
prerelease(range) ==
  IF range.op = "" /\ range.v.prerelease # <<>> THEN Some(range.v.prerelease) ELSE Absent

Star == [op |-> "*", v |-> Ver(0, 0, 0, <<>>)]

----------------------------------------------------------------------------
(* solveVersionConstraint *)

Found(version)      == [type |-> "found", version |-> version]
NoVersionFound      == [type |-> "no-version-found"]
NoVersionFoundOCaml == [type |-> "no-version-found-for-ocaml-constraint"]

\* semver.parse(version) plus the fields findVersion adds: the pre-release is hidden
\* when the range parses to no pre-release version; raw keeps the catalog key.
ParseCandidate(entry, versionRange) ==
  LET hide == ~IsSome(prerelease(versionRange))
  IN  [raw         |-> entry.version,
       major       |-> entry.version.major,
       minor       |-> entry.version.minor,
       patch       |-> entry.version.patch,
       prerelease  |-> IF hide THEN <<>> ELSE entry.version.prerelease,
       opamVersion |-> entry.opam.version]

\* EsyOpam.versionCompare on the opam versions (kept as their rank in opam's order)
versionCompare(a, b) == IF a < b THEN -1 ELSE IF a > b THEN 1 ELSE 0

\* versionsParsed.sort((a, b) => -1 * versionCompare(a.opamVersion, b.opamVersion))
RECURSIVE SortDescending(_)
SortDescending(vs) ==
  IF vs = <<>> THEN <<>>
  ELSE LET top  == CHOOSE i \in 1..Len(vs) :
                     /\ \A j \in 1..Len(vs) :
                          versionCompare(vs[i].opamVersion, vs[j].opamVersion) >= 0
                     /\ \A j \in 1..(i - 1) :
                          versionCompare(vs[j].opamVersion, vs[i].opamVersion) < 0
           rest == [k \in 1..(Len(vs) - 1) |-> IF k < top THEN vs[k] ELSE vs[k + 1]]
       IN  <<vs[top]>> \o SortDescending(rest)

\* The loop of findVersion: the first candidate of the sorted list the range accepts.
RECURSIVE FirstSatisfying(_, _, _)
FirstSatisfying(sorted, versionRange, i) ==
  IF i > Len(sorted) THEN Absent
  ELSE IF satisfies(sorted[i], versionRange) THEN Some(Found(sorted[i].raw))
  ELSE FirstSatisfying(sorted, versionRange, i + 1)

\* findVersion(versions, versionRange): versions are catalog entries in key order.
findVersion(entries, versionRange) ==
  LET versionsParsed == [i \in 1..Len(entries) |-> ParseCandidate(entries[i], versionRange)]
  IN  FirstSatisfying(SortDescending(versionsParsed), versionRange, 1)

\* (manifest.peerDependencies || {}).ocaml || '*'
ocamlDependency(entry) ==
  IF IsSome(entry.peerDependencies) THEN Val(entry.peerDependencies) ELSE Star

\* The filter of solveVersionConstraint: the entries the compiler version admits.
AvailableForOCamlVersion(entry, ocamlVersion) ==
  satisfies(Val(ocamlVersion), ocamlDependency(entry))

solveVersionConstraint(manifestCollection, versionRange, ocamlVersion) ==
  LET allVersions == manifestCollection
      versions ==
        IF IsSome(ocamlVersion)
          THEN SelectSeq(allVersions, LAMBDA e : AvailableForOCamlVersion(e, ocamlVersion))
          ELSE allVersions
      found == findVersion(versions, versionRange)
  IN  IF IsSome(found) THEN Val(found)
      ELSE IF IsSome(ocamlVersion)
        THEN IF IsSome(findVersion(allVersions, versionRange))
               THEN NoVersionFoundOCaml
               ELSE NoVersionFound
        ELSE NoVersionFound

\* OpamResolver.isLockfileEntryOutdated: the solver on the one-candidate catalog made
\* of the entry (its opam version is its own version; a single candidate is never
\* compared, so its rank is 1).
isLockfileEntryOutdated(lockfileEntry, versionRange, ocamlVersion) ==
  LET manifestCollection ==
        <<[version |-> lockfileEntry.version,
           peerDependencies |-> lockfileEntry.peerDependencies,
           opam |-> [version |-> 1]]>>
  IN  IF ~isValidReference(lockfileEntry.resolved) THEN FALSE
      ELSE solveVersionConstraint(manifestCollection, versionRange, ocamlVersion).type
             # "found"

\* --- inputs ---

MaxCatalog == 3

V100    == Ver(1, 0, 0, <<>>)
V110    == Ver(1, 1, 0, <<>>)
V200a   == Ver(2, 0, 0, <<"alpha">>)
V200b   == Ver(2, 0, 0, <<"beta1">>)
V200    == Ver(2, 0, 0, <<>>)
V500    == Ver(5, 0, 0, <<>>)
\* catalog keys, in the order the collection lists them
VersionList == <<V100, V110, V200a, V200b>>

Ranges ==
  {Star,
   [op |-> "",   v |-> V100],      \* 1.0.0
   [op |-> "",   v |-> V200b],     \* 2.0.0-beta1
   [op |-> ">=", v |-> V110],      \* >=1.1.0
   [op |-> ">=", v |-> V200b],     \* >=2.0.0-beta1
   [op |-> ">=", v |-> V500],      \* >=5.0.0
   [op |-> "<",  v |-> V110],      \* <1.1.0
   [op |-> "^",  v |-> V100]}      \* ^1.0.0

\* peerDependencies.ocaml of a candidate
OcamlDependencies ==
  {Absent, Some([op |-> "^", v |-> V100]), Some([op |-> ">=", v |-> V200]),
   Some([op |-> ">=", v |-> V200a])}
\* resolver.ocamlVersion
OcamlVersions == {Absent, Some(V100), Some(V200), Some(V200b)}

Constraints == [versionRange : Ranges, ocamlVersion : OcamlVersions]

\* The subsequences of VersionList of at most MaxCatalog keys, as index sets.
KeySets == {ks \in SUBSET (1..Len(VersionList)) : Cardinality(ks) <= MaxCatalog}

RECURSIVE SeqOfSet(_)
SeqOfSet(ks) ==
  IF ks = {} THEN <<>>
  ELSE LET m == CHOOSE k \in ks : \A j \in ks : k <= j
       IN  <<m>> \o SeqOfSet(ks \ {m})

\* Catalogs: for a key set, every opam order of the keys (opam versions are distinct)
\* and every declaration of a compiler range.
CatalogsOver(ks) ==
  LET idx == SeqOfSet(ks)
      n   == Len(idx)
  IN  {[i \in 1..n |-> [version |-> VersionList[idx[i]],
                        peerDependencies |-> deps[i],
                        opam |-> [version |-> rank[i]]]] :
         rank \in {r \in [1..n -> 1..n] : \A i, j \in 1..n : r[i] = r[j] => i = j},
         deps \in [1..n -> OcamlDependencies]}

Catalogs == UNION {CatalogsOver(ks) : ks \in KeySets}
SmallCatalogs == UNION {CatalogsOver(ks) : ks \in {k \in KeySets : Cardinality(k) <= 1}}

LockResolved ==
  {Absent, Some(<<"f">>), Some(<<"f", "@", "1">>),
   Some(<<"f", "@", "1", "-", "u", ".", "t", "g", "z">>)}
LockEntries ==
  [version : {VersionList[i] : i \in 1..Len(VersionList)},
   resolved : LockResolved, peerDependencies : OcamlDependencies]

InitSolver ==
  /\ solution = Absent
  /\ outdated = Absent
  /\ constraint \in Constraints
  /\ \/ lockEntry = Absent /\ catalog \in Catalogs
     \/ lockEntry \in {Some(e) : e \in LockEntries} /\ catalog \in SmallCatalogs

IdleSolver ==
  /\ solution = Absent /\ outdated = Absent /\ lockEntry = Absent
  /\ catalog = <<>> /\ constraint = [versionRange |-> Star, ocamlVersion |-> Absent]

\* The lockfile check made before a locked entry is reused.
CheckLockfileEntry ==
  /\ IsSome(lockEntry) /\ ~IsSome(outdated)
  /\ outdated' = Some(isLockfileEntryOutdated(Val(lockEntry), constraint.versionRange,
                                              constraint.ocamlVersion))
  /\ UNCHANGED <<catalog, constraint, lockEntry, solution, exceptSolver>>

\* OpamResolver.resolveManifest, for a request with no usable lockfile entry.
ResolveManifest ==
  /\ ~IsSome(solution)
  /\ ~IsSome(lockEntry) \/ outdated = Some(TRUE)
  /\ solution' = Some(solveVersionConstraint(catalog, constraint.versionRange,
                                             constraint.ocamlVersion))
  /\ UNCHANGED <<catalog, constraint, lockEntry, outdated, exceptSolver>>

----------------------------------------------------------------------------
(* Lockfile entries: implodeEntry / explodeEntry *)

\* normalizePattern(pattern).name: the pattern up to the "@" that starts its range,
\* a leading "@" being the scope marker of the name.
getName(pattern) ==
  LET scoped == Len(pattern) > 0 /\ pattern[1] = "@"
      body   == IF scoped THEN Tail(pattern) ELSE pattern
      at     == IndexOf(body, AtSign)
      name   == IF at = 0 THEN body ELSE SubSeq(body, 1, at - 1)
  IN  IF scoped THEN AtSign \o name ELSE name

\* JavaScript truthiness of an optional string / of an optional name
Truthy(o)     == IsSome(o) /\ Val(o) # ""
TruthyName(o) == IsSome(o) /\ Val(o) # <<>>

\* blankObjectUndefined: an absent or empty map becomes undefined
blankObjectUndefined(obj) == IF IsSome(obj) /\ Val(obj) # {} THEN obj ELSE Absent

implodeEntry(pattern, obj) ==
  LET inferredName == getName(pattern)
  IN  [name                 |-> IF Some(inferredName) = obj.name THEN Absent ELSE obj.name,
       version              |-> obj.version,
       uid                  |-> IF obj.uid = Some(obj.version) THEN Absent ELSE obj.uid,
       resolved             |-> obj.resolved,
       registry             |-> IF obj.registry = Some("npm") THEN Absent ELSE obj.registry,
       dependencies         |-> blankObjectUndefined(obj.dependencies),
       optionalDependencies |-> blankObjectUndefined(obj.optionalDependencies),
       peerDependencies     |-> blankObjectUndefined(obj.peerDependencies),
       permissions          |-> blankObjectUndefined(obj.permissions)]

\* explodeEntry fills the object in place; the result is the object after the call.
explodeEntry(pattern, obj) ==
  [obj EXCEPT
     !.optionalDependencies = IF IsSome(@) THEN @ ELSE Some({}),
     !.dependencies         = IF IsSome(@) THEN @ ELSE Some({}),
     !.uid                  = IF Truthy(@) THEN @ ELSE Some(obj.version),
     !.permissions          = IF IsSome(@) THEN @ ELSE Some({}),
     !.registry             = IF Truthy(@) THEN @ ELSE Some("npm"),
     !.name                 = IF TruthyName(@) THEN @ ELSE Some(getName(pattern))]

\* --- inputs ---

PatA1  == <<"a", "@", "1">>
PatA2  == <<"a", "@", "2">>
PatB1  == <<"b", "@", "1">>
PatAB1 == <<"a", "b", "@", "1">>

OptMaps(key) == {Absent, Some({}), Some({<<key, "^1">>})}

Entries ==
  [name                 : {Absent, Some(<<"a">>), Some(<<"b">>)},
   version              : {"1"},
   uid                  : {Absent, Some(""), Some("1"), Some("u")},
   resolved             : {Absent, Some("r1")},
   registry             : {Absent, Some("npm"), Some("yarn")},
   dependencies         : OptMaps("d"),
   optionalDependencies : OptMaps("o"),
   peerDependencies     : OptMaps("p"),
   permissions          : {Absent, Some({}), Some({<<"x", TRUE>>})}]

InitEntry ==
  /\ entryPattern \in {PatA1, PatB1}
  /\ fullEntry \in Entries
  /\ minimal = Absent
  /\ explodedObjs = {}

IdleEntry ==
  /\ entryPattern = <<>> /\ fullEntry = <<>> /\ minimal = Absent /\ explodedObjs = {}

ImplodeEntry ==
  /\ ~IsSome(minimal)
  /\ minimal' = Some(implodeEntry(entryPattern, fullEntry))
  /\ UNCHANGED <<entryPattern, fullEntry, explodedObjs, exceptEntry>>

\* explodeEntry(pattern, e)
ExplodeEntry ==
  /\ "entry" \notin explodedObjs
  /\ fullEntry' = explodeEntry(entryPattern, fullEntry)
  /\ explodedObjs' = explodedObjs \cup {"entry"}
  /\ UNCHANGED <<entryPattern, minimal, exceptEntry>>

\* explodeEntry(pattern, implodeEntry(pattern, e))
ExplodeMinimal ==
  /\ IsSome(minimal) /\ "minimal" \notin explodedObjs
  /\ minimal' = Some(explodeEntry(entryPattern, Val(minimal)))
  /\ explodedObjs' = explodedObjs \cup {"minimal"}
  /\ UNCHANGED <<entryPattern, fullEntry, exceptEntry>>

----------------------------------------------------------------------------
(* Lockfile.getLockfile *)

\* keyForRemote: remote.resolved, else reference#hash, else null
keyForRemote_ResolvedOnly(remote) ==
  IF Truthy(remote.resolved) THEN remote.resolved ELSE Absent
keyForRemote(remote) ==
  IF Truthy(remote.resolved) THEN remote.resolved
  ELSE IF Truthy(remote.reference) /\ Truthy(remote.hash)
    THEN Some(Val(remote.reference) \o "#" \o Val(remote.hash))
    ELSE Absent

\* character codes of the characters patterns are written with
CharCode(c) ==
  CASE c = "1" -> 49 [] c = "2" -> 50 [] c = "@" -> 64 [] c = "a" -> 97 [] c = "b" -> 98

\* sortAlpha(a, b): the difference of the first differing character codes, else of
\* the lengths.
sortAlpha(a, b) ==
  LET shortLen == IF Len(a) < Len(b) THEN Len(a) ELSE Len(b)
      diffs    == {i \in 1..shortLen : a[i] # b[i]}
  IN  IF diffs = {} THEN Len(a) - Len(b)
      ELSE LET i == CHOOSE d \in diffs : \A e \in diffs : d <= e
           IN  CharCode(a[i]) - CharCode(b[i])

\* Array.prototype.sort(sortAlpha) on distinct keys
RECURSIVE SortAlpha(_)
SortAlpha(keys) ==
  IF keys = <<>> THEN <<>>
  ELSE LET least == CHOOSE i \in 1..Len(keys) :
                      \A j \in 1..Len(keys) : sortAlpha(keys[i], keys[j]) <= 0
           rest  == [k \in 1..(Len(keys) - 1) |-> IF k < least THEN keys[k] ELSE keys[k + 1]]
       IN  <<keys[least]>> \o SortAlpha(rest)

\* Object.keys(patterns)
ObjectKeys(obj) == [i \in 1..Len(obj) |-> obj[i].pattern]

\* Object.keys(patterns).sort(sortAlpha)
sortedPatternsKeys_Unsorted(obj) == ObjectKeys(obj)
sortedPatternsKeys(obj) == SortAlpha(ObjectKeys(obj))

\* patterns[pattern]
Lookup(obj, pattern) == (CHOOSE i \in 1..Len(obj) : obj[i].pattern = pattern)

\* The object handed to implodeEntry for a package record.
EntryOfPackage(pkg) ==
  [name                 |-> pkg.name,
   version              |-> pkg.version,
   uid                  |-> pkg._uid,
   resolved             |-> Val(pkg._remote).resolved,
   registry             |-> Val(pkg._remote).registry,
   dependencies         |-> pkg.dependencies,
   peerDependencies     |-> pkg.peerDependencies,
   optionalDependencies |-> pkg.optionalDependencies,
   permissions          |-> Val(pkg._reference).permissions]

\* The state of the loop: lockfile maps each processed pattern to an entry object
\* (an index into objects, the entry objects created so far); seen maps a remote key
\* to the object created for it; error is set by a failed invariant().
EmptyBuild == [lockfile |-> <<>>, seen |-> {}, objects |-> <<>>, error |-> Absent]

\* The loop body without the backfill of the name of a seen entry.
BuildStep_NoBackfill(st, pattern, pkg) ==
  IF ~IsSome(pkg._reference) THEN [st EXCEPT !.error = Some("Package is missing a reference")]
  ELSE IF ~IsSome(pkg._remote) THEN [st EXCEPT !.error = Some("Package is missing a remote")]
  ELSE
  LET remoteKey == keyForRemote(Val(pkg._remote))
      hits      == {h \in st.seen : IsSome(remoteKey) /\ h[1] = Val(remoteKey)}
  IN
  IF hits # {} THEN
    LET obj == (CHOOSE h \in hits : TRUE)[2]
    IN  [st EXCEPT !.lockfile = Append(@, [pattern |-> pattern, obj |-> obj])]
  ELSE
    LET obj == Len(st.objects) + 1
    IN  [st EXCEPT !.lockfile = Append(@, [pattern |-> pattern, obj |-> obj]),
                   !.objects  = Append(@, implodeEntry(pattern, EntryOfPackage(pkg))),
                   !.seen     = IF IsSome(remoteKey)
                                  THEN @ \cup {<<Val(remoteKey), obj>>} ELSE @]

\* One iteration of the loop of getLockfile.
BuildStep(st, pattern, pkg) ==
  IF ~IsSome(pkg._reference) THEN [st EXCEPT !.error = Some("Package is missing a reference")]
  ELSE IF ~IsSome(pkg._remote) THEN [st EXCEPT !.error = Some("Package is missing a remote")]
  ELSE
  LET remoteKey == keyForRemote(Val(pkg._remote))
      hits      == {h \in st.seen : IsSome(remoteKey) /\ h[1] = Val(remoteKey)}
  IN
  IF hits # {} THEN
    LET obj == (CHOOSE h \in hits : TRUE)[2]
        backfill == ~TruthyName(st.objects[obj].name) /\ Some(getName(pattern)) # pkg.name
    IN  [st EXCEPT !.lockfile = Append(@, [pattern |-> pattern, obj |-> obj]),
                   !.objects[obj].name = IF backfill THEN pkg.name ELSE @]
  ELSE
    LET obj == Len(st.objects) + 1
    IN  [st EXCEPT !.lockfile = Append(@, [pattern |-> pattern, obj |-> obj]),
                   !.objects  = Append(@, implodeEntry(pattern, EntryOfPackage(pkg))),
                   !.seen     = IF IsSome(remoteKey)
                                  THEN @ \cup {<<Val(remoteKey), obj>>} ELSE @]

RECURSIVE BuildLoop(_, _, _, _)
BuildLoop(st, keys, i, obj) ==
  IF i > Len(keys) \/ IsSome(st.error) THEN st
  ELSE BuildLoop(BuildStep(st, keys[i], obj[Lookup(obj, keys[i])].pkg), keys, i + 1, obj)

\* getLockfile(patterns): the returned object (its keys in insertion order, each with
\* its entry object) and the entry objects, or the error thrown.
getLockfile(obj) ==
  LET st == BuildLoop(EmptyBuild, sortedPatternsKeys(obj), 1, obj)
  IN  IF IsSome(st.error) THEN [ok |-> FALSE, error |-> Val(st.error)]
      ELSE [ok |-> TRUE, lockfile |-> st.lockfile, objects |-> st.objects]

\* --- inputs ---

MaxPatterns == 3

PatternList == <<PatA1, PatA2, PatB1, PatAB1>>

Remote(resolved, reference, hash) ==
  [type |-> "opam", registry |-> Some("npm"), resolved |-> resolved,
   reference |-> reference, hash |-> hash]

Remotes ==
  {Remote(Some("r1"), Some("r1"), Some("h")),      \* identity r1
   Remote(Absent, Some("ref"), Some("h")),          \* identity ref#h
   Remote(Some("ref#h"), Some("x"), Absent),        \* identity ref#h, by resolved
   Remote(Absent, Some("ref"), Absent)}             \* no identity

Package(name, remote, reference) ==
  [name |-> Some(name), version |-> "1", _uid |-> Some("1"),
   _remote |-> remote, _reference |-> reference,
   dependencies |-> Some({}), peerDependencies |-> Absent,
   optionalDependencies |-> Absent]

Reference == [permissions |-> Some({})]

Packages ==
  {Package(n, Some(r), Some(Reference)) : n \in {<<"a">>, <<"b">>}, r \in Remotes}
    \cup {Package(<<"a">>, Absent, Some(Reference)),
          Package(<<"a">>, Some(Remote(Some("r1"), Some("r1"), Some("h"))), Absent)}

\* Every insertion order of at most MaxPatterns distinct patterns.
PatternOrders ==
  UNION {{o \in [1..n -> 1..Len(PatternList)] : \A i, j \in 1..n : o[i] = o[j] => i = j} :
           n \in 0..MaxPatterns}

InitBuild ==
  /\ \E o \in PatternOrders : \E pk \in [1..Len(o) -> Packages] :
       patterns = [i \in 1..Len(o) |-> [pattern |-> PatternList[o[i]], pkg |-> pk[i]]]
  /\ lockfile = Absent

IdleBuild == patterns = <<>> /\ lockfile = Absent

\* Lockfile.getLockfile(patterns)
GetLockfile ==
  /\ ~IsSome(lockfile)
  /\ lockfile' = Some(getLockfile(patterns))
  /\ UNCHANGED <<patterns, exceptBuild>>

----------------------------------------------------------------------------
(* Lockfile.getLocked *)

\* A value of this.cache: an alias (a string naming another pattern) or an entry
\* object, given by its identity: several patterns may be bound to one object.
Alias(pattern) == [str |-> Some(pattern), obj |-> Absent]
Concrete(obj)  == [str |-> Absent, obj |-> Some(obj)]

\* pattern in cache && cache[pattern]: absent stands for the falsy result
Shrunk(c, pattern) == IF pattern \in DOMAIN c THEN Some(c[pattern]) ELSE Absent

\* typeof shrunk === 'string'
IsAliasValue(shrunk) == IsSome(shrunk) /\ IsSome(Val(shrunk).str)

\* The frames one call of getLocked may nest before the engine runs out of call
\* stack and throws RangeError; the recursive call is an ordinary nested call.
StackLimit == 5

\* The outcome of a finished call
Returned(outcome, value) ==
  [locked EXCEPT !.pc = "done", !.outcome = outcome, !.value = value]

\* if (!cache) return undefined
GetLockedNoCache ==
  /\ locked.pc = "call" /\ ~IsSome(cache)
  /\ locked' = Returned("absent", Absent)
  /\ UNCHANGED <<cache, heap, exceptLocked>>

\* shrunk is a string: return this.getLocked(shrunk), one frame deeper
GetLockedAlias ==
  /\ locked.pc = "call" /\ IsSome(cache)
  /\ IsAliasValue(Shrunk(Val(cache), locked.pattern))
  /\ locked.depth < StackLimit
  /\ locked' = [locked EXCEPT !.pattern = Val(Val(Shrunk(Val(cache), locked.pattern)).str),
                              !.depth = @ + 1]
  /\ UNCHANGED <<cache, heap, exceptLocked>>

\* shrunk is a string and no frame is left for the nested call
GetLockedStackOverflow ==
  /\ locked.pc = "call" /\ IsSome(cache)
  /\ IsAliasValue(Shrunk(Val(cache), locked.pattern))
  /\ locked.depth >= StackLimit
  /\ locked' = Returned("RangeError", Absent)
  /\ UNCHANGED <<cache, heap, exceptLocked>>

\* shrunk is an entry: explodeEntry(pattern, shrunk) fills the object in place, for
\* every pattern bound to it; return shrunk, the object itself
GetLockedEntry ==
  /\ locked.pc = "call" /\ IsSome(cache)
  /\ LET shrunk == Shrunk(Val(cache), locked.pattern)
     IN  /\ IsSome(shrunk) /\ ~IsAliasValue(shrunk)
         /\ LET obj == Val(Val(shrunk).obj)
            IN  /\ heap' = [heap EXCEPT ![obj] = explodeEntry(locked.pattern, @)]
                /\ locked' = Returned("entry", Some(obj))
  /\ UNCHANGED <<cache, exceptLocked>>

\* the pattern has no binding: return undefined
GetLockedMissing ==
  /\ locked.pc = "call" /\ IsSome(cache)
  /\ ~IsSome(Shrunk(Val(cache), locked.pattern))
  /\ locked' = Returned("absent", Absent)
  /\ UNCHANGED <<cache, heap, exceptLocked>>

\* getLocked(pattern) is called again, once the call before it has ended
GetLocked(pattern) ==
  /\ locked.pc = "done"
  /\ locked' = [pc |-> "call", pattern |-> pattern, depth |-> 1,
                outcome |-> "none", value |-> Absent]
  /\ UNCHANGED <<cache, heap, exceptLocked>>

\* removePattern(pattern): delete cache[pattern], nothing without a cache; it runs
\* between calls of getLocked, which is synchronous
RemovePattern(pattern) ==
  /\ locked.pc = "done"
  /\ cache' = IF ~IsSome(cache) THEN cache
              ELSE Some([q \in DOMAIN Val(cache) \ {pattern} |-> Val(cache)[q]])
  /\ UNCHANGED <<heap, locked, exceptLocked>>

\* --- inputs ---

MaxBindings == 3

\* The patterns a cache may bind: the first MaxBindings of PatternList
CachePatterns ==
  {PatternList[i] : i \in {j \in 1..Len(PatternList) : j <= MaxBindings}}

MinimalEntry(name) ==
  [name |-> name, version |-> "1", uid |-> Absent, resolved |-> Some("r1"),
   registry |-> Absent, dependencies |-> Absent, optionalDependencies |-> Absent,
   peerDependencies |-> Absent, permissions |-> Absent]

\* The identities of the entry objects
ObjectIds == {1, 2}

CacheValues ==
  {Alias(PatternList[i]) : i \in 1..Len(PatternList)}
    \cup {Concrete(o) : o \in ObjectIds}

Caches ==
  {Absent} \cup {Some(c) : c \in UNION {[D -> CacheValues] : D \in SUBSET CachePatterns}}

InitLocked ==
  /\ cache \in Caches
  /\ heap \in [ObjectIds -> {MinimalEntry(n) : n \in {Absent, Some(<<"b">>)}}]
  /\ \E i \in 1..Len(PatternList) :
       locked = [pc |-> "call", pattern |-> PatternList[i], depth |-> 1,
                 outcome |-> "none", value |-> Absent]

IdleLocked ==
  /\ cache = Absent
  /\ heap = <<>>
  /\ locked = [pc |-> "idle", pattern |-> <<>>, depth |-> 0,
               outcome |-> "none", value |-> Absent]

----------------------------------------------------------------------------
(* The fetcher module: OpamFetcher._fetch, _fetchTarball and the step functions *)

\* Paths are sequences of segments.  path.join normalises: ".." drops the segment
\* before it, "." is dropped.
RECURSIVE Normalize(_, _)
Normalize(done, rest) ==
  IF rest = <<>> THEN done
  ELSE IF Head(rest) = "." THEN Normalize(done, Tail(rest))
  ELSE IF Head(rest) = ".." /\ done # <<>> /\ done[Len(done)] # ".."
    THEN Normalize(SubSeq(done, 1, Len(done) - 1), Tail(rest))
  ELSE Normalize(Append(done, Head(rest)), Tail(rest))

\* path.join(a, b)
Join(a, b) == Normalize(<<>>, a \o b)
\* path.dirname(p)
Dirname(p) == SubSeq(p, 1, Len(p) - 1)

\* this.dest of the fetch
Dest == <<"cache", "pkg1">>

TarballFilename == <<".yarn-tarball.tgz">>
PackageJson     == <<"package.json">>
\* The file `patch -p1 < _esy_patch` reads, relative to its cwd (dest).
EsyPatch        == <<"_esy_patch">>
\* What the archive unpacks to (tar --strip-components 1 -C dest)
Extracted       == <<"extracted">>

\* crypto.createHash("md5"): the digest is kept as a number, a different one for
\* every different sequence of chunks (the chunks are 0 or 1).
HashInit == 0
HashUpdate(h, chunk) == 3 * h + chunk + 1

\* writeValidatedStream, on "finish": whether the stream's checksum is accepted.
ChecksumAccepted(md5checksum, actualChecksum) ==
  ~(IsSome(md5checksum) /\ actualChecksum # Val(md5checksum))

\* An operation in flight: a file-system call or a child process not yet settled.
Op(step, kind, path, id) == [step |-> step, kind |-> kind, path |-> path, id |-> id]

TarballOp     == Op("download", "createWriteStream", Join(Dest, TarballFilename), 0)
UnpackOp      == Op("unpack", "exec", Join(Dest, Extracted), 0)
PackageJsonOp == Op("writeJson", "writeFile", Join(Dest, PackageJson), 0)
MkdirpOp(i)   == Op("writeFiles", "mkdirp",
                    Dirname(Join(Dest, manifest.opam.files[i].name)), i)
WriteFileOp(i) == Op("writeFiles", "writeFile", Join(Dest, manifest.opam.files[i].name), i)
PatchFilename(i) == Join(Dest, manifest.opam.patches[i].name)
PatchWriteOp(i)  == Op("applyPatches", "writeFile", PatchFilename(i), i)
PatchExecOp(i)   == Op("applyPatches", "exec", Join(Dest, EsyPatch), i)
PatchUnlinkOp(i) == Op("applyPatches", "unlink", PatchFilename(i), i)

\* The function called rejects: its remaining statements never run.
Fail(f, err) == [f EXCEPT !.pc = "failed", !.error = Some(err)]

Settle(f, op) == [f EXCEPT !.inflight = @ \ {op}]
Begin(f, pc, step, ops) ==
  [f EXCEPT !.pc = pc,
            !.started = IF @ # <<>> /\ @[Len(@)] = step THEN @ ELSE Append(@, step),
            !.inflight = @ \cup ops]
Wrote(f, path) == [f EXCEPT !.files = @ \cup {path}, !.touched = @ \cup {path}]
\* A write or an extraction that fails may have left (part of) its file behind.
Residue(f, path, left) == IF left THEN Wrote(f, path) ELSE f

\* applyPatches: the loop body starts with the write of the patch file.
StartPatch(f, i) ==
  [Begin(f, "patchWrite", "applyPatches", {PatchWriteOp(i)}) EXCEPT !.patchIdx = i]

\* applyPatches(dest, patches): with no patch it returns at once
StartApplyPatches(f) ==
  IF Len(manifest.opam.patches) = 0
    THEN Begin(f, "done", "applyPatches", {})
    ELSE StartPatch(f, 1)

\* writeFiles(dest, files): returns at once without files, else files.map starts
\* every file's mkdirp
StartWriteFiles(f) ==
  LET n == Len(manifest.opam.files)
  IN  IF n = 0 THEN Begin(f, "done", "writeFiles", {})
      ELSE [Begin(f, "writeFiles", "writeFiles", {MkdirpOp(i) : i \in 1..n})
              EXCEPT !.fileState = [i \in 1..n |-> "mkdirp"]]

\* writeJson(path.join(dest, "package.json"), manifest)
StartWriteJson(f) == Begin(f, "writeJson", "writeJson", {PackageJsonOp})

\* unpackTarball(tarballStorePath, dest, tarballFormat)
StartUnpack(f) == Begin(f, "unpack", "unpack", {UnpackOp})

\* this._fetchTarball(manifest, tarballStorePath)
StartDownload(f) == Begin(f, "download", "download", {TarballOp})

\* The promise of _fetchTarball settles once: with the digest, or with the first error.
Resolved(f, d, value) ==
  IF d.promise # "pending" THEN f
  ELSE [f EXCEPT !.pc = "done", !.hash = Some(value)]
Rejected(f, d, err) ==
  IF d.promise # "pending" THEN f ELSE Fail(f, err)
SettlePromise(d, state) == IF d.promise = "pending" THEN state ELSE d.promise

\* The functions of the fetcher module.
FetcherFunctions ==
  {"_fetch", "_fetchTarball", "unpackTarball", "writeJson", "writeFiles", "applyPatches"}

\* --- the steps ---

\* _fetch(): parseResolution(this.reference) is its first statement.  The resolver
\* module exports lookupManifest, parseReference and parseFragment and no
\* parseResolution, so the imported binding is undefined and the call throws
\* TypeError: _fetch rejects before lookupManifest and starts no operation.
Fetch ==
  /\ fetch.pc = "called" /\ fetch.entry = "_fetch"
  /\ fetch' = Fail(fetch, "TypeError")
  /\ UNCHANGED <<manifest, download, exceptFetch>>

\* _fetchTarball(manifest, filename): the request is made, the stream is written
FetchTarball ==
  /\ fetch.pc = "called" /\ fetch.entry = "_fetchTarball"
  /\ fetch' = StartDownload(fetch)
  /\ download' = [download EXCEPT !.stream = "open", !.promise = "pending",
                                  !.attempts = @ + 1]
  /\ UNCHANGED <<manifest, exceptFetch>>

UnpackTarball ==
  /\ fetch.pc = "called" /\ fetch.entry = "unpackTarball"
  /\ fetch' = StartUnpack(fetch)
  /\ UNCHANGED <<manifest, download, exceptFetch>>

WriteJson ==
  /\ fetch.pc = "called" /\ fetch.entry = "writeJson"
  /\ fetch' = StartWriteJson(fetch)
  /\ UNCHANGED <<manifest, download, exceptFetch>>

WriteFiles ==
  /\ fetch.pc = "called" /\ fetch.entry = "writeFiles"
  /\ fetch' = StartWriteFiles(fetch)
  /\ UNCHANGED <<manifest, download, exceptFetch>>

ApplyPatches ==
  /\ fetch.pc = "called" /\ fetch.entry = "applyPatches"
  /\ fetch' = StartApplyPatches(fetch)
  /\ UNCHANGED <<manifest, download, exceptFetch>>

\* req.on("response", handleRequestError)
ResponseEvent ==
  /\ download.stream \in {"open", "errored"} /\ download.response = "none"
  /\ \E status \in {"ok", "error"} :
       /\ download' = [download EXCEPT
                         !.response = status,
                         !.promise = IF status = "error"
                                       THEN SettlePromise(download, "rejected") ELSE @]
       /\ fetch' = IF status = "error"
                     THEN Rejected(fetch, download, "requestFailed") ELSE fetch
  /\ UNCHANGED <<manifest, exceptFetch>>

\* stream.on("data", chunk => ...): the listener has no guard, and a source that
\* goes on emitting after out has failed is hashed all the same
DataEvent ==
  /\ download.stream \in {"open", "errored"}
  /\ download.response # "none" /\ download.body # <<>>
  /\ download' = [download EXCEPT
                    !.body = Tail(@),
                    !.hasher = IF IsSome(manifest.opam.checksum)
                                 THEN HashUpdate(@, Head(download.body)) ELSE @]
  /\ UNCHANGED <<manifest, fetch, exceptFetch>>

\* out.on("finish", ...): the checksum is compared, the promise settled
FinishEvent ==
  /\ download.stream = "open" /\ download.response # "none" /\ download.body = <<>>
  /\ LET actualChecksum == download.hasher
         accepted == ChecksumAccepted(manifest.opam.checksum, actualChecksum)
         f == Wrote(Settle(fetch, TarballOp), TarballOp.path)
     IN  /\ download' = [download EXCEPT
                           !.stream = "finished",
                           !.promise = SettlePromise(download,
                                         IF accepted THEN "resolved" ELSE "rejected")]
         /\ fetch' = IF accepted THEN Resolved(f, download, actualChecksum)
                                 ELSE Rejected(f, download, "SecurityError")
  /\ UNCHANGED <<manifest, exceptFetch>>

\* out.on("error", err => reject(err)): the file may exist, with part of the body
StreamErrorEvent ==
  /\ download.stream = "open"
  /\ download' = [download EXCEPT !.stream = "errored",
                                  !.promise = SettlePromise(download, "rejected")]
  /\ \E left \in BOOLEAN :
       fetch' = Rejected(Residue(Settle(fetch, TarballOp), TarballOp.path, left),
                         download, "io")
  /\ UNCHANGED <<manifest, exceptFetch>>

\* child.exec(tar ...) of unpackTarball settles
UnpackDone ==
  /\ fetch.pc = "unpack" /\ UnpackOp \in fetch.inflight
  /\ \E ok, left \in BOOLEAN :
       fetch' = IF ok THEN Begin(Wrote(Settle(fetch, UnpackOp), UnpackOp.path),
                                 "done", "unpack", {})
                      ELSE Fail(Residue(Settle(fetch, UnpackOp), UnpackOp.path, left),
                                "exec")
  /\ UNCHANGED <<manifest, download, exceptFetch>>

\* fs.writeFile of writeJson settles
WriteJsonDone ==
  /\ fetch.pc = "writeJson" /\ PackageJsonOp \in fetch.inflight
  /\ \E ok, left \in BOOLEAN :
       fetch' = IF ok THEN Begin(Wrote(Settle(fetch, PackageJsonOp), PackageJsonOp.path),
                                 "done", "writeJson", {})
                      ELSE Fail(Residue(Settle(fetch, PackageJsonOp),
                                        PackageJsonOp.path, left), "io")
  /\ UNCHANGED <<manifest, download, exceptFetch>>

\* Promise.all(writes): rejects with the first file that fails, resolves when every
\* file is written.  The other files' writes go on either way.
FileSettled(f, i, state) ==
  LET g == [f EXCEPT !.fileState[i] = state]
  IN  IF g.pc # "writeFiles" THEN g
      ELSE IF state = "failed" THEN Fail(g, "io")
      ELSE IF \A k \in DOMAIN g.fileState : g.fileState[k] = "done"
        THEN Begin(g, "done", "writeFiles", {})
        ELSE g

\* await fs.mkdirp(path.dirname(filename)) of one file, then its fs.writeFile
MkdirpDone(i) ==
  /\ i <= Len(manifest.opam.files)
  /\ MkdirpOp(i) \in fetch.inflight
  /\ \E ok \in BOOLEAN :
       fetch' = IF ok
                  THEN [Wrote(Settle(fetch, MkdirpOp(i)), MkdirpOp(i).path) EXCEPT
                          !.fileState[i] = "writing",
                          !.inflight = @ \cup {WriteFileOp(i)}]
                  ELSE FileSettled(Settle(fetch, MkdirpOp(i)), i, "failed")
  /\ UNCHANGED <<manifest, download, exceptFetch>>

WriteFileDone(i) ==
  /\ i <= Len(manifest.opam.files)
  /\ WriteFileOp(i) \in fetch.inflight
  /\ \E ok, left \in BOOLEAN :
       fetch' = IF ok
                  THEN FileSettled(Wrote(Settle(fetch, WriteFileOp(i)), WriteFileOp(i).path),
                                   i, "done")
                  ELSE FileSettled(Residue(Settle(fetch, WriteFileOp(i)),
                                           WriteFileOp(i).path, left), i, "failed")
  /\ UNCHANGED <<manifest, download, exceptFetch>>

\* await fs.writeFile(patchFilename, patch.content), then the patch command
PatchWriteDone ==
  /\ fetch.pc = "patchWrite" /\ PatchWriteOp(fetch.patchIdx) \in fetch.inflight
  /\ LET i == fetch.patchIdx
     IN  \E ok, left \in BOOLEAN :
           fetch' = IF ok
                      THEN Begin(Wrote(Settle(fetch, PatchWriteOp(i)), PatchFilename(i)),
                                 "patchExec", "applyPatches", {PatchExecOp(i)})
                      ELSE Fail(Residue(Settle(fetch, PatchWriteOp(i)),
                                        PatchFilename(i), left), "io")
  /\ UNCHANGED <<manifest, download, exceptFetch>>

\* await child.exec("patch -p1 < _esy_patch", {cwd: dest}): fails when dest has no
\* _esy_patch to read, and may fail when the patch does not apply.
PatchExecDone ==
  /\ fetch.pc = "patchExec" /\ PatchExecOp(fetch.patchIdx) \in fetch.inflight
  /\ LET i == fetch.patchIdx
     IN  \E ok \in BOOLEAN :
           fetch' = IF ok /\ Join(Dest, EsyPatch) \in fetch.files
                      THEN Begin(Settle(fetch, PatchExecOp(i)),
                                 "patchUnlink", "applyPatches", {PatchUnlinkOp(i)})
                      ELSE Fail(Settle(fetch, PatchExecOp(i)), "exec")
  /\ UNCHANGED <<manifest, download, exceptFetch>>

\* await fs.unlink(patchFilename), then the next patch
PatchUnlinkDone ==
  /\ fetch.pc = "patchUnlink" /\ PatchUnlinkOp(fetch.patchIdx) \in fetch.inflight
  /\ LET i == fetch.patchIdx
         f == Settle(fetch, PatchUnlinkOp(i))
     IN  \E ok \in BOOLEAN :
           fetch' = IF ~ok THEN Fail(f, "io")
                    ELSE LET g == [f EXCEPT !.files = @ \ {PatchFilename(i)}]
                         IN  IF i < Len(manifest.opam.patches)
                               THEN StartPatch(g, i + 1)
                               ELSE Begin(g, "done", "applyPatches", {})
  /\ UNCHANGED <<manifest, download, exceptFetch>>

\* --- inputs ---

MaxFiles   == 2
MaxPatches == 1
MaxChunks  == 2

\* names an override file of the package metadata may carry
FileNames  == {<<"f">>, <<"lib", "g">>, <<"..", "pkg2", "f">>}
PatchNames == {EsyPatch, <<"..", "p">>}

SeqsUpTo(S, n) == UNION {[1..k -> S] : k \in 0..n}

Manifests ==
  {[opam |-> [url |-> u, checksum |-> c, files |-> fs, patches |-> ps]] :
     u \in {Absent, Some("https://host/x.tgz")},
     c \in {Absent, Some(1), Some(4)},
     fs \in SeqsUpTo([name : FileNames], MaxFiles),
     ps \in SeqsUpTo([name : PatchNames], MaxPatches)}

NoDownload ==
  [stream |-> "none", response |-> "none", body |-> <<>>, hasher |-> HashInit,
   promise |-> "none", attempts |-> 0]

\* A function of the fetcher has been called on an empty destination; a body is
\* there to download when the function is _fetchTarball, which is given a url.
InitFetch ==
  /\ manifest \in Manifests
  /\ \E entry \in FetcherFunctions :
       /\ entry = "_fetchTarball" => IsSome(manifest.opam.url)
       /\ fetch = [pc |-> "called", entry |-> entry, started |-> <<>>, inflight |-> {},
                   files |-> {}, touched |-> {}, fileState |-> <<>>, patchIdx |-> 0,
                   error |-> Absent, hash |-> Absent]
       /\ \E body \in SeqsUpTo({0, 1}, MaxChunks) :
            /\ entry = "_fetchTarball" \/ body = <<>>
            /\ download = [NoDownload EXCEPT !.body = body]

IdleFetch ==
  /\ manifest = [opam |-> [url |-> Absent, checksum |-> Absent, files |-> <<>>,
                           patches |-> <<>>]]
  /\ fetch = [pc |-> "idle", entry |-> "none", started |-> <<>>, inflight |-> {},
              files |-> {}, touched |-> {}, fileState |-> <<>>, patchIdx |-> 0,
              error |-> Absent, hash |-> Absent]
  /\ download = NoDownload

----------------------------------------------------------------------------
(* Specifications *)

RefInit == InitRef /\ IdleSolver /\ IdleEntry /\ IdleBuild /\ IdleFetch /\ IdleLocked
RefNext == Resolve \/ ParseReference \/ FormatParsed
RefSpec == RefInit /\ [][RefNext]_vars

SolverInit == InitSolver /\ IdleRef /\ IdleEntry /\ IdleBuild /\ IdleFetch /\ IdleLocked
SolverNext == CheckLockfileEntry \/ ResolveManifest
SolverSpec == SolverInit /\ [][SolverNext]_vars


EntryInit == InitEntry /\ IdleRef /\ IdleSolver /\ IdleBuild /\ IdleFetch /\ IdleLocked
EntryNext == ImplodeEntry \/ ExplodeEntry \/ ExplodeMinimal
EntrySpec == EntryInit /\ [][EntryNext]_vars

BuildInit == InitBuild /\ IdleRef /\ IdleSolver /\ IdleEntry /\ IdleFetch /\ IdleLocked
BuildNext == GetLockfile
BuildSpec == BuildInit /\ [][BuildNext]_vars

FetchInit == InitFetch /\ IdleRef /\ IdleSolver /\ IdleEntry /\ IdleBuild /\ IdleLocked
FetchNext ==
  \/ Fetch
  \/ FetchTarball
  \/ UnpackTarball
  \/ WriteJson
  \/ WriteFiles
  \/ ApplyPatches
  \/ ResponseEvent
  \/ DataEvent
  \/ FinishEvent
  \/ StreamErrorEvent
  \/ UnpackDone
  \/ WriteJsonDone
  \/ \E i \in 1..MaxFiles : MkdirpDone(i)
  \/ \E i \in 1..MaxFiles : WriteFileDone(i)
  \/ PatchWriteDone
  \/ PatchExecDone
  \/ PatchUnlinkDone
FetchSpec == FetchInit /\ [][FetchNext]_vars

\* A call of getLocked runs to its end: the engine keeps executing it.  Whether the
\* caller calls again or removes a pattern is up to the caller.
LockedInit == InitLocked /\ IdleRef /\ IdleSolver /\ IdleEntry /\ IdleBuild /\ IdleFetch
LockedCallNext ==
  \/ GetLockedNoCache
  \/ GetLockedAlias
  \/ GetLockedStackOverflow
  \/ GetLockedEntry
  \/ GetLockedMissing
LockedNext ==
  \/ LockedCallNext
  \/ \E i \in 1..Len(PatternList) : GetLocked(PatternList[i])
  \/ \E i \in 1..Len(PatternList) : RemovePattern(PatternList[i])
LockedSpec == LockedInit /\ [][LockedNext]_vars /\ WF_vars(LockedCallNext)

----------------------------------------------------------------------------
(* Properties of the solver and of the reference strings *)

\* A candidate is toolchain-eligible when no toolchain version is given, when it
\* declares no toolchain range, or when the toolchain version satisfies its range.
ToolchainEligible(entry, ocamlVersion) ==
  \/ ~IsSome(ocamlVersion)
  \/ ~IsSome(entry.peerDependencies)
  \/ satisfies(Val(ocamlVersion), Val(entry.peerDependencies))

\* The candidate matches the range the way findVersion matches it.
MatchesRange(entry, versionRange) ==
  satisfies(ParseCandidate(entry, versionRange), versionRange)

CatalogEntries == {catalog[i] : i \in 1..Len(catalog)}

\* C1: solveVersionConstraint returns exactly one of three outcomes: found iff some
\* toolchain-eligible candidate satisfies the range; the toolchain outcome iff a
\* toolchain version is given, no eligible candidate satisfies the range and some
\* candidate of the whole catalog does; no-version-found iff no candidate does.
C1_ThreeWayOutcome ==
  IsSome(solution) =>
    LET type     == Val(solution).type
        eligible == \E e \in CatalogEntries :
                      /\ ToolchainEligible(e, constraint.ocamlVersion)
                      /\ MatchesRange(e, constraint.versionRange)
        anyMatch == \E e \in CatalogEntries : MatchesRange(e, constraint.versionRange)
    IN  /\ type \in {"found", "no-version-found", "no-version-found-for-ocaml-constraint"}
        /\ (type = "found") <=> eligible
        /\ (type = "no-version-found-for-ocaml-constraint") <=>
             (IsSome(constraint.ocamlVersion) /\ ~eligible /\ anyMatch)
        /\ (type = "no-version-found") <=> ~anyMatch

\* The range names a pre-release: one of its comparators carries a pre-release tag.
RangeNamesPrerelease(range) == range.op # "*" /\ range.v.prerelease # <<>>

\* The candidate satisfies the range, its pre-release tag masked off when the range
\* names no pre-release.
SatisfiesRequested(version, range) ==
  satisfies(IF RangeNamesPrerelease(range)
              THEN version
              ELSE [version EXCEPT !.prerelease = <<>>],
            range)

\* The catalog {1.0.0, 1.1.0, 2.0.0-beta1} in its opam order, no toolchain ranges.
ExampleCatalog ==
  <<[version |-> V100,  peerDependencies |-> Absent, opam |-> [version |-> 1]],
    [version |-> V110,  peerDependencies |-> Absent, opam |-> [version |-> 2]],
    [version |-> V200b, peerDependencies |-> Absent, opam |-> [version |-> 3]]>>

\* C2: whenever the solver returns found(v): v is a key of the catalog with its
\* pre-release tag intact, v is toolchain-eligible, v satisfies the requested range
\* (pre-release masked when the range names none), and no other eligible,
\* range-satisfying candidate ranks above v in opam's order; and the catalog
\* {1.0.0, 1.1.0, 2.0.0-beta1} with range * and no toolchain gives 2.0.0-beta1.
C2_FoundIsBestEligible ==
  (IsSome(solution) /\ Val(solution).type = "found") =>
    LET v == Val(solution).version
    IN  /\ \E e \in CatalogEntries :
              /\ e.version = v
              /\ ToolchainEligible(e, constraint.ocamlVersion)
              /\ SatisfiesRequested(e.version, constraint.versionRange)
              /\ \A o \in CatalogEntries :
                   (/\ ToolchainEligible(o, constraint.ocamlVersion)
                    /\ SatisfiesRequested(o.version, constraint.versionRange))
                   => o.opam.version <= e.opam.version
        /\ (/\ catalog = ExampleCatalog
            /\ constraint = [versionRange |-> Star, ocamlVersion |-> Absent])
           => v = V200b

\* C3: isLockfileEntryOutdated answers true (outdated) for every lock entry whose
\* resolved string is absent or does not parse into a reference.
C3_MalformedEntryIsOutdated ==
  (IsSome(outdated) /\ IsSome(lockEntry)) =>
    ((~IsSome(Val(lockEntry).resolved)
      \/ ~parseReference(Val(Val(lockEntry).resolved)).ok)
     => Val(outdated) = TRUE)

\* C8: parsing the formatted string of a reference returns its name, scope, version
\* and uid, and formatting the result of a successful parse gives the parsed string.
C8_ReferenceRoundTrip ==
  /\ (IsSome(manifestRef) /\ IsSome(parsed)) =>
       /\ Val(parsed).ok
       /\ Val(parsed).name = Val(manifestRef).name
       /\ Val(parsed).scope = Val(manifestRef).scope
       /\ Val(parsed).version = Val(manifestRef).version
       /\ Val(parsed).uid = Val(manifestRef).uid
  /\ IsSome(reformatted) => Val(reformatted) = Val(resolution)


\* C4: explodeEntry(p, implodeEntry(p, e)) equals explodeEntry(p, e) on every field:
\* name, version, uid, resolved, registry, permissions, dependencies,
\* peerDependencies and optionalDependencies.
C4_ImplodeExplodeRoundTrip ==
  explodedObjs = {"entry", "minimal"} =>
    /\ Val(minimal).name = fullEntry.name
    /\ Val(minimal).version = fullEntry.version
    /\ Val(minimal).uid = fullEntry.uid
    /\ Val(minimal).resolved = fullEntry.resolved
    /\ Val(minimal).registry = fullEntry.registry
    /\ Val(minimal).permissions = fullEntry.permissions
    /\ Val(minimal).dependencies = fullEntry.dependencies
    /\ Val(minimal).peerDependencies = fullEntry.peerDependencies
    /\ Val(minimal).optionalDependencies = fullEntry.optionalDependencies

\* The remote identity key of a package record: resolved if present, else
\* reference#hash, else none.
RemoteIdentity(pkg) ==
  LET remote == Val(pkg._remote)
  IN  IF IsSome(remote.resolved) THEN remote.resolved
      ELSE IF IsSome(remote.reference) /\ IsSome(remote.hash)
        THEN Some(Val(remote.reference) \o "#" \o Val(remote.hash))
        ELSE Absent

Built == IsSome(lockfile) /\ Val(lockfile).ok

\* The package record of the i-th key of the returned object.
BuiltPkg(i) == patterns[Lookup(patterns, Val(lockfile).lockfile[i].pattern)].pkg

\* C5: in the object getLockfile returns, two patterns map to the very same entry
\* object iff both package records have a remote identity key and the keys are equal;
\* a pattern whose remote has no identity key shares its entry with no other pattern.
C5_SharedEntryIffSameIdentity ==
  Built =>
    LET lf == Val(lockfile).lockfile
    IN  /\ Len(lf) = Len(patterns)
        /\ \A i, j \in 1..Len(lf) : i # j =>
             ((lf[i].obj = lf[j].obj) <=>
                (/\ IsSome(RemoteIdentity(BuiltPkg(i)))
                 /\ RemoteIdentity(BuiltPkg(i)) = RemoteIdentity(BuiltPkg(j))))

\* Some two patterns share an entry, one by resolved and one by reference#hash, and
\* some pattern without identity key stands alone beside another pattern.
C5_Witness ==
  /\ Built
  /\ \E i, j \in 1..Len(Val(lockfile).lockfile) :
       /\ i # j
       /\ Val(lockfile).lockfile[i].obj = Val(lockfile).lockfile[j].obj
       /\ IsSome(Val(BuiltPkg(i)._remote).resolved)
       /\ ~IsSome(Val(BuiltPkg(j)._remote).resolved)
  /\ \E i \in 1..Len(Val(lockfile).lockfile) : ~IsSome(RemoteIdentity(BuiltPkg(i)))

\* Lexicographic order of patterns by character code.
LexLess(a, b) ==
  \/ \E i \in 1..Len(a) :
       /\ i <= Len(b)
       /\ SubSeq(a, 1, i - 1) = SubSeq(b, 1, i - 1)
       /\ CharCode(a[i]) < CharCode(b[i])
  \/ Len(a) < Len(b) /\ SubSeq(b, 1, Len(a)) = a

InsertionOrders(n) == {f \in [1..n -> 1..n] : \A i, j \in 1..n : f[i] = f[j] => i = j}

\* The same pattern -> package records, inserted in the order f.
Reordered(obj, f) == [i \in 1..Len(obj) |-> obj[f[i]]]

\* C6: getLockfile is independent of the insertion order of the pattern -> package
\* records: every insertion order of the same records gives the same result, the
\* returned patterns are in lexicographic order, and the entry of each group of
\* patterns sharing a remote identity is the one imploded from the lexicographically
\* first pattern of the group (its name possibly filled in from a later pattern).
C6_OrderIndependent ==
  IsSome(lockfile) =>
    /\ \A f \in InsertionOrders(Len(patterns)) :
         getLockfile(Reordered(patterns, f)) = Val(lockfile)
    /\ Val(lockfile).ok =>
         LET lf == Val(lockfile).lockfile
         IN  /\ \A i, j \in 1..Len(lf) : i < j => LexLess(lf[i].pattern, lf[j].pattern)
             /\ \A o \in 1..Len(Val(lockfile).objects) :
                  LET first == CHOOSE i \in 1..Len(lf) :
                                 /\ lf[i].obj = o
                                 /\ \A j \in 1..Len(lf) : lf[j].obj = o =>
                                      (j = i \/ LexLess(lf[i].pattern, lf[j].pattern))
                      made  == implodeEntry(lf[first].pattern, EntryOfPackage(BuiltPkg(first)))
                      got   == Val(lockfile).objects[o]
                  IN  /\ [got EXCEPT !.name = Absent] = [made EXCEPT !.name = Absent]
                      /\ got.name = made.name
                         \/ (/\ ~IsSome(made.name)
                             /\ \E j \in 1..Len(lf) :
                                  lf[j].obj = o /\ got.name = BuiltPkg(j).name)

\* A lockfile built from records inserted out of lexicographic order, in which two
\* patterns share an entry.
C6_Witness ==
  /\ Built
  /\ ObjectKeys(patterns) # SortAlpha(ObjectKeys(patterns))
  /\ \E i, j \in 1..Len(Val(lockfile).lockfile) :
       i # j /\ Val(lockfile).lockfile[i].obj = Val(lockfile).lockfile[j].obj

----------------------------------------------------------------------------
(* Properties of the fetch pipeline *)

\* The download ended and its digest differs from the checksum the manifest gives.
ChecksumMismatch ==
  /\ download.stream = "finished"
  /\ IsSome(manifest.opam.checksum)
  /\ download.hasher # Val(manifest.opam.checksum)

\* _fetchTarball has failed: its promise is rejected, so the caller that awaits it
\* gets no digest and does not go on.
DownloadRejected ==
  /\ fetch.pc = "failed"
  /\ download.promise = "rejected"
  /\ ~IsSome(fetch.hash)

\* C7: when a checksum is supplied and the digest of the downloaded bytes differs
\* from it, the download fails with the integrity (security) error: the awaiting
\* fetch gets no digest to go on with to the later steps.
C7_MismatchFailsWithSecurityError ==
  ChecksumMismatch => (fetch.error = Some("SecurityError") /\ DownloadRejected)

\* The order in which _fetch awaits the steps.
StepOrder == <<"lookup", "download", "unpack", "writeJson", "writeFiles", "applyPatches">>
StepRank(step) == CHOOSE i \in 1..Len(StepOrder) : StepOrder[i] = step

\* The steps started so far are in pipeline order, and every operation in flight
\* belongs to the step started last: a step starts only after the one before it
\* has completed.
StepsInOrder ==
  /\ \A i, j \in 1..Len(fetch.started) :
       i < j => StepRank(fetch.started[i]) < StepRank(fetch.started[j])
  /\ \A op \in fetch.inflight : op.step = fetch.started[Len(fetch.started)]

\* C9 as stated: the steps of one fetch run strictly one after another, and at no
\* time are two write operations of the fetch in progress at once, the writes of
\* the individual override files included.
C9_NoTwoWritesInProgress ==
  StepsInOrder /\ Cardinality(fetch.inflight) <= 1

IsPrefix(a, b) == Len(a) <= Len(b) /\ SubSeq(b, 1, Len(a)) = a

\* The destination directory of another fetch, disjoint from Dest.
OtherDest == <<"cache", "pkg2">>

\* C10: every path the fetch writes (archive, extracted content, package.json,
\* override files, temporary patch files) lies inside its destination directory,
\* whatever names the metadata carries; so it writes no path inside the disjoint
\* destination of another fetch.
C10_WritesInsideDest ==
  \A p \in fetch.touched \cup {op.path : op \in fetch.inflight} :
    IsPrefix(Dest, p) /\ ~IsPrefix(OtherDest, p)

\* C11: getLocked terminates for every lockfile mapping and every pattern, returning
\* a concrete entry or absent; a cyclic alias chain is rejected or capped, not
\* followed until the call stack is exhausted: every call that ends has returned an
\* entry or absent, and every call ends.
C11_GetLockedReturns ==
  /\ [](locked.pc = "done" => locked.outcome \in {"entry", "absent"})
  /\ (locked.pc = "call") ~> (locked.pc = "done")

\* The temporary patch files that are still in the destination.
RemainingPatchFiles ==
  {i \in 1..Len(manifest.opam.patches) : PatchFilename(i) \in fetch.files}

\* applyPatches has finished: normally, or because the patch-apply step failed.
ApplyPatchesFinished ==
  \/ fetch.pc = "done"
  \/ fetch.pc = "failed" /\ fetch.error = Some("exec")

\* C12: once applyPatches has finished, whether the external patch-apply step
\* succeeded or failed, no temporary patch file it wrote remains in the destination.
C12_PatchFileDeleted ==
  ApplyPatchesFinished => RemainingPatchFiles = {}

\* Package records that share a remote identity key share their name.
SameIdentitySameName ==
  \A i, j \in 1..Len(patterns) :
    LET a == patterns[i].pkg
        b == patterns[j].pkg
    IN  (/\ IsSome(RemoteIdentity(a))
         /\ RemoteIdentity(a) = RemoteIdentity(b)) => a.name = b.name

\* The state of the loop of getLockfile after its first k iterations.
AfterIterations(k) ==
  BuildLoop(EmptyBuild, SubSeq(sortedPatternsKeys(patterns), 1, k), 1, patterns)

\* From one iteration to the next an entry object that exists already keeps every
\* field, except that a name that was absent may be set.
OnlyBackfillsName(before, after) ==
  \A o \in 1..Len(before.objects) :
    /\ after.objects[o] = [before.objects[o] EXCEPT !.name = after.objects[o].name]
    /\ after.objects[o].name # before.objects[o].name => ~IsSome(before.objects[o].name)

\* C13: when package records that share a remote identity key share their name, for
\* every pattern p of the returned object exploding p's entry with p recovers the name
\* of p's package record, whichever pattern owns the entry; and the only change the
\* loop makes to an entry that exists already is to set a name that was absent.
C13_ExplodedNameIsPackageName ==
  (Built /\ SameIdentitySameName) =>
    LET lf == Val(lockfile).lockfile
    IN  /\ \A i \in 1..Len(lf) :
             explodeEntry(lf[i].pattern, Val(lockfile).objects[lf[i].obj]).name
               = BuiltPkg(i).name
        /\ \A k \in 1..Len(patterns) :
             OnlyBackfillsName(AfterIterations(k - 1), AfterIterations(k))
        /\ AfterIterations(Len(patterns)).objects = Val(lockfile).objects

\* Two patterns of one package share an entry whose owner's inferred name is the
\* package name and whose other pattern infers another name: the name was backfilled.
C13_Witness ==
  /\ Built /\ SameIdentitySameName
  /\ \E i, j \in 1..Len(Val(lockfile).lockfile) :
       LET lf == Val(lockfile).lockfile
       IN  /\ i < j /\ lf[i].obj = lf[j].obj
           /\ Some(getName(lf[i].pattern)) = BuiltPkg(i).name
           /\ Some(getName(lf[j].pattern)) # BuiltPkg(j).name
           /\ Val(lockfile).objects[lf[i].obj].name = BuiltPkg(i).name

====
